---- MODULE Spec2Model ----
(***************************************************************************)
(* A model of pig.go: the round-robin tournament (roundRobin and its       *)
(* worker goroutines) and the single game of Pig (play, roll, stay and the *)
(* two strategies).                                                        *)
(*                                                                         *)
(* Spec       the tournament: the orchestrator, one worker per strategy    *)
(*            and the unbuffered results channel; a game is one step of a  *)
(*            worker whose winner is any index play can return.            *)
(* FairSpec   Spec with the goroutine scheduler's fairness.                *)
(* PlaySpec   one call of play, an action of a strategy per step.          *)
(* ActionSpec roll and stay applied once to a score drawn from a box.      *)
(*                                                                         *)
(* log and arrived are history variables: they record what the workers     *)
(* played and the order of the receives; no guard and no program variable  *)
(* depends on them.                                                        *)
(***************************************************************************)
EXTENDS Integers, Sequences, FiniteSets, TLC

\* pig.go:15, the winning score.
win == 100

\* pig.go:16, the number of games per series.
gamesPerSeries == 10

\* The tournament is checked for every number of strategies in 0..MaxN.
MaxN == 3

\* ActionSpec draws player, opponent and thisTurn from 0..MaxScore and from
\* the values around win.
MaxScore == 6

\* The number of actions LuckyWinner follows a game for.
MaxLucky == 80

VARIABLES
    \* ---- roundRobin ----
    strategies,     \* the argument of roundRobin: a sequence of strategies
    mpc,            \* the orchestrator's position
    mi,             \* the orchestrator's loop variable i
    wins,           \* wins, indexed 0..n-1
    r,              \* the vector last received
    games,          \* the second result, once returned
    wpc,            \* each worker's position
    wj,             \* each worker's j
    wk,             \* each worker's k
    winCount,       \* each worker's private vector
    log,            \* history: per pair of indices, who played it and who was credited
    arrived,        \* history: the workers whose vectors were received, in order
    \* ---- play ----
    strategy0,
    strategy1,
    s,              \* the score
    turnIsOver,
    currentPlayer,
    ppc,            \* the position in play (or in ActionSpec)
    winner,         \* what play returned, -1 before
    \* ---- ActionSpec ----
    arg,            \* the score the action was applied to
    die,            \* the die outcome given to roll, 0 for stay
    \* ---- main ----
    ri,             \* main's loop variable i over the strategies
    total,          \* the total ratioString last computed
    \* ---- the history of a game of play ----
    chosen,         \* the action nextAction returned last, "none" before
    \* the game by the rules, beside play:
    bank,           \* each player's banked score, by player index
    turn,           \* the turn total of the player to act
    actor           \* the index of the player to act

rrVars == <<strategies, mpc, mi, wins, r, games, wpc, wj, wk, winCount, log, arrived>>
playVars == <<strategy0, strategy1, s, turnIsOver, currentPlayer, ppc, winner>>
actVars == <<arg, die>>
mainVars == <<ri, total>>
histVars == <<chosen, bank, turn, actor>>
vars == <<rrVars, playVars, actVars, mainVars, histVars>>

----------------------------------------------------------------------------
(* Scores, actions and strategies *)

Score(p, o, t) == [player |-> p, opponent |-> o, thisTurn |-> t]

StayAtK(k) == [kind |-> "StayAtK", k |-> k]

Random == [kind |-> "Random"]

\* roll with thisTurn = outcome for thisTurn = outcome + s.thisTurn.
rollNoSum(sc, outcome) ==
    IF outcome = 1
    THEN <<Score(sc.opponent, sc.player, 0), TRUE>>
    ELSE <<Score(sc.player, sc.opponent, outcome), FALSE>>

\* roll that ends the turn on a 1 without swapping the roles.
rollNoSwap(sc, outcome) ==
    IF outcome = 1
    THEN <<Score(sc.player, sc.opponent, 0), TRUE>>
    ELSE <<Score(sc.player, sc.opponent, outcome + sc.thisTurn), FALSE>>

\* roll with the die outcome rand.Intn(6) + 1 made explicit.
roll(sc, outcome) ==
    IF outcome = 1
    THEN <<Score(sc.opponent, sc.player, 0), TRUE>>
    ELSE <<Score(sc.player, sc.opponent, outcome + sc.thisTurn), FALSE>>

\* stay that swaps the roles without adding thisTurn to the player's score.
stayNoBank(sc) == <<Score(sc.opponent, sc.player, 0), TRUE>>

\* stay that banks the turn total and leaves it standing in thisTurn.
stayKeepTurn(sc) == <<Score(sc.opponent, sc.player + sc.thisTurn, sc.thisTurn), TRUE>>

stay(sc) == <<Score(sc.opponent, sc.player + sc.thisTurn, 0), TRUE>>

\* The outcomes of rand.Intn(6) + 1.
Die == 1..6

\* nextAction of StayAtK with the player's whole total held against k.
nextActionTotal(self, sc) ==
    IF self.kind = "StayAtK"
    THEN (IF sc.player + sc.thisTurn >= self.k THEN {"stay"} ELSE {"roll"})
    ELSE {"stay", "roll"}

\* nextAction of StayAtK with thisTurn > k for thisTurn >= k.
nextActionStrict(self, sc) ==
    IF self.kind = "StayAtK"
    THEN (IF sc.thisTurn > self.k THEN {"stay"} ELSE {"roll"})
    ELSE {"stay", "roll"}

\* The actions a strategy may choose at a score: one for StayAtK, either for
\* Random (rand.Float64() > 0.5 or not).
nextAction(self, sc) ==
    IF self.kind = "StayAtK"
    THEN (IF sc.thisTurn >= self.k THEN {"stay"} ELSE {"roll"})
    ELSE {"stay", "roll"}

\* The die outcomes an action consults: rand.Intn(6) + 1 in roll, none in
\* stay (written 0).
Outcomes(a) == IF a = "roll" THEN Die ELSE {0}

\* action(s) for the chosen action and the die outcome it draws.
Result(a, sc, d) == IF a = "stay" THEN stay(sc) ELSE roll(sc, d)

\* The game as the comments on roll and stay tell it, with each player's
\* banked score kept under the player's own index: on a stay the turn total
\* is added to the acting player's score and the other player acts next; on
\* a 1 the turn total is abandoned and the other player acts next; any other
\* roll is added to the turn total.
ByRules(a, d, b, t, who) ==
    IF a = "stay"
    THEN [bank |-> [b EXCEPT ![who] = @ + t], turn |-> 0, actor |-> 1 - who]
    ELSE IF d = 1
         THEN [bank |-> b, turn |-> 0, actor |-> 1 - who]
         ELSE [bank |-> b, turn |-> t + d, actor |-> who]

\* The values play returns: currentPlayer starts as rand.Intn(2) and is only
\* ever replaced by (currentPlayer + 1) % 2.
PlayResults == {0, 1}

----------------------------------------------------------------------------
(* roundRobin *)

n == Len(strategies)

Idx == 0..(n - 1)

Zeros == [x \in Idx |-> 0]

\* The history of a pair nobody has played.
NoLog == [games |-> 0, by |-> {}, credit |-> Zeros]

\* The strategies main would build, cut to m entries: thresholds 1..m-1 and
\* Random last.
Lineup(m) == [x \in 1..m |-> IF x < m THEN StayAtK(x) ELSE Random]

RECURSIVE SumTo(_, _)
SumTo(f, m) == IF m < 0 THEN 0 ELSE f[m] + SumTo(f, m - 1)

\* The sum of a vector indexed 0..n-1.
Sum(f) == SumTo(f, n - 1)

\* AtLoop with k <= gamesPerSeries for k < gamesPerSeries: one game too many.
AtLoopOneMore(j, k) ==
    IF j < n /\ k <= gamesPerSeries THEN <<"loop", j, k>>
    ELSE IF j < n THEN (IF j + 1 < n /\ 0 < gamesPerSeries
                        THEN <<"loop", j + 1, 0>> ELSE <<"send", n, 0>>)
    ELSE <<"send", j, k>>

\* Where worker i stands once its loops are at (j, k): in the loops while a
\* game is left to play, at the send otherwise.
AtLoop(j, k) ==
    IF j < n /\ k < gamesPerSeries THEN <<"loop", j, k>>
    ELSE IF j < n THEN (IF j + 1 < n /\ 0 < gamesPerSeries
                        THEN <<"loop", j + 1, 0>> ELSE <<"send", n, 0>>)
    ELSE <<"send", j, k>>

\* Credited with winCount[winner]++ for the if/else on winner.
CreditedRaw(i, j, w) == w

\* The index a game's win is credited to.
Credited(i, j, w) == IF w = 0 THEN i ELSE j

RRInit ==
    /\ strategies \in {Lineup(m) : m \in 0..MaxN}
    /\ mpc = "spawn"
    /\ mi = 0
    /\ wins = Zeros
    /\ r = <<>>
    /\ games = 0
    /\ wpc = [i \in Idx |-> "none"]
    /\ wj = [i \in Idx |-> 0]
    /\ wk = [i \in Idx |-> 0]
    /\ winCount = [i \in Idx |-> <<>>]
    /\ log = [p \in Idx \X Idx |-> NoLog]
    /\ arrived = <<>>
    /\ ri = 0
    /\ total = 0

\* Nothing of the other specifications runs.
RRIdle ==
    /\ strategies = <<>>
    /\ mpc = "idle"
    /\ mi = 0
    /\ wins = <<>>
    /\ r = <<>>
    /\ games = 0
    /\ wpc = <<>>
    /\ wj = <<>>
    /\ wk = <<>>
    /\ winCount = <<>>
    /\ log = <<>>
    /\ arrived = <<>>
    /\ ri = 0
    /\ total = 0

PlayIdle ==
    /\ strategy0 = Random
    /\ strategy1 = Random
    /\ s = Score(0, 0, 0)
    /\ turnIsOver = FALSE
    /\ currentPlayer = 0
    /\ ppc = "idle"
    /\ winner = -1
    /\ chosen = "none"
    /\ bank = <<>>
    /\ turn = 0
    /\ actor = 0

ActIdle ==
    /\ arg = Score(0, 0, 0)
    /\ die = 0

Init == RRInit /\ PlayIdle /\ ActIdle

\* go func(i int) {...}(i), pig.go:100-115.
Spawn ==
    /\ mpc = "spawn"
    /\ mi < n
    /\ wpc' = [wpc EXCEPT ![mi] = "start"]
    /\ mi' = mi + 1
    /\ UNCHANGED <<strategies, mpc, wins, r, games, wj, wk, winCount, log, arrived, playVars, actVars, mainVars, histVars>>

\* SpawnExit with the first loop one goroutine short.
SpawnExitOneShort ==
    /\ mpc = "spawn"
    /\ mi >= n - 1
    /\ mpc' = "recv"
    /\ mi' = 0
    /\ UNCHANGED <<strategies, wins, r, games, wpc, wj, wk, winCount, log, arrived, playVars, actVars, mainVars, histVars>>

\* The first loop ends; the second starts.
SpawnExit ==
    /\ mpc = "spawn"
    /\ mi >= n
    /\ mpc' = "recv"
    /\ mi' = 0
    /\ UNCHANGED <<strategies, wins, r, games, wpc, wj, wk, winCount, log, arrived, playVars, actVars, mainVars, histVars>>

\* WorkerStart with j := i for j := i + 1: every strategy also plays itself.
WorkerStartSelf(i) ==
    /\ wpc[i] = "start"
    /\ winCount' = [winCount EXCEPT ![i] = Zeros]
    /\ LET at == AtLoop(i, 0) IN
        /\ wpc' = [wpc EXCEPT ![i] = at[1]]
        /\ wj' = [wj EXCEPT ![i] = at[2]]
        /\ wk' = [wk EXCEPT ![i] = at[3]]
    /\ UNCHANGED <<strategies, mpc, mi, wins, r, games, log, arrived, playVars, actVars, mainVars, histVars>>

\* winCount := make([]int, len(strategies)) and j := i + 1.
WorkerStart(i) ==
    /\ wpc[i] = "start"
    /\ winCount' = [winCount EXCEPT ![i] = Zeros]
    /\ LET at == AtLoop(i + 1, 0) IN
        /\ wpc' = [wpc EXCEPT ![i] = at[1]]
        /\ wj' = [wj EXCEPT ![i] = at[2]]
        /\ wk' = [wk EXCEPT ![i] = at[3]]
    /\ UNCHANGED <<strategies, mpc, mi, wins, r, games, log, arrived, playVars, actVars, mainVars, histVars>>

\* PlayGame counting straight into the shared wins, with no private vector.
PlayGameShared(i) ==
    /\ wpc[i] = "loop"
    /\ \E w \in PlayResults :
        LET j == wj[i]
            c == Credited(i, j, w)
            old == log[<<i, j>>]
        IN  /\ wins' = [wins EXCEPT ![c] = @ + 1]
            /\ log' = [log EXCEPT ![<<i, j>>] =
                         [games |-> old.games + 1,
                          by |-> old.by \cup {i},
                          credit |-> [old.credit EXCEPT ![c] = @ + 1]]]
    /\ LET at == AtLoop(wj[i], wk[i] + 1) IN
        /\ wpc' = [wpc EXCEPT ![i] = at[1]]
        /\ wj' = [wj EXCEPT ![i] = at[2]]
        /\ wk' = [wk EXCEPT ![i] = at[3]]
    /\ UNCHANGED <<strategies, mpc, mi, winCount, r, games, arrived, playVars, actVars, mainVars, histVars>>

\* One game of the series: play(strategies[i], strategies[j]) and the
\* increment of winCount, then k++ (and j++ when the series is over).
PlayGame(i) ==
    /\ wpc[i] = "loop"
    /\ \E w \in PlayResults :
        LET j == wj[i]
            c == Credited(i, j, w)
            old == log[<<i, j>>]
        IN  /\ winCount' = [winCount EXCEPT ![i][c] = @ + 1]
            /\ log' = [log EXCEPT ![<<i, j>>] =
                         [games |-> old.games + 1,
                          by |-> old.by \cup {i},
                          credit |-> [old.credit EXCEPT ![c] = @ + 1]]]
    /\ LET at == AtLoop(wj[i], wk[i] + 1) IN
        /\ wpc' = [wpc EXCEPT ![i] = at[1]]
        /\ wj' = [wj EXCEPT ![i] = at[2]]
        /\ wk' = [wk EXCEPT ![i] = at[3]]
    /\ UNCHANGED <<strategies, mpc, mi, wins, r, games, arrived, playVars, actVars, mainVars, histVars>>

\* results <- winCount meets r := <-results: the channel is unbuffered, so
\* the send and the receive are one step.
Handoff(i) ==
    /\ wpc[i] = "send"
    /\ mpc = "recv"
    /\ mi < n
    /\ r' = winCount[i]
    /\ arrived' = Append(arrived, i)
    /\ wpc' = [wpc EXCEPT ![i] = "exit"]
    /\ mpc' = "merge"
    /\ UNCHANGED <<strategies, mi, wins, games, wj, wk, winCount, log, playVars, actVars, mainVars, histVars>>

\* MergeInto with wins[j] = r[j] for wins[j] += r[j].
MergeOverwrite(w, v) == [x \in DOMAIN w |-> IF x \in DOMAIN v THEN v[x] ELSE w[x]]

\* MergeInto that adds every received count twice.
MergeDouble(w, v) == [x \in DOMAIN w |-> IF x \in DOMAIN v THEN w[x] + v[x] + v[x] ELSE w[x]]

\* for j := range r { wins[j] += r[j] }, then i++.
MergeInto(w, v) == [x \in DOMAIN w |-> IF x \in DOMAIN v THEN w[x] + v[x] ELSE w[x]]

Merge ==
    /\ mpc = "merge"
    /\ wins' = MergeInto(wins, r)
    /\ mi' = mi + 1
    /\ mpc' = "recv"
    /\ UNCHANGED <<strategies, r, games, wpc, wj, wk, winCount, log, arrived, playVars, actVars, mainVars, histVars>>

\* GamesPerStrategy counting a series of every strategy against itself.
GamesPerStrategyWithSelf == gamesPerSeries * n

\* gamesPerStrategy := gamesPerSeries * (len(strategies) - 1); return.
GamesPerStrategy == gamesPerSeries * (n - 1)

\* Return with the second loop one receive short.
ReturnOneShort ==
    /\ mpc = "recv"
    /\ mi >= n - 1
    /\ games' = GamesPerStrategy
    /\ mpc' = "done"
    /\ UNCHANGED <<strategies, mi, wins, r, wpc, wj, wk, winCount, log, arrived, playVars, actVars, mainVars, histVars>>

Return ==
    /\ mpc = "recv"
    /\ mi >= n
    /\ games' = GamesPerStrategy
    /\ mpc' = "done"
    /\ UNCHANGED <<strategies, mi, wins, r, wpc, wj, wk, winCount, log, arrived, playVars, actVars, mainVars, histVars>>

\* ratioString's total: total := 0; for _, val := range vals { total += val }.
RECURSIVE ratioTotal(_)
ratioTotal(vals) == IF vals = <<>> THEN 0 ELSE Head(vals) + ratioTotal(Tail(vals))

\* ReportArgs with games for games - wins[i]: the losses are not computed.
ReportArgsNoLoss(i) == <<wins[i], games>>

\* The values main hands to ratioString for strategy i.
ReportArgs(i) == <<wins[i], games - wins[i]>>

\* One pass of main's loop over the strategies: the line of strategy ri is
\* printed, ratioString adding up its total on the way.
Report ==
    /\ mpc = "done"
    /\ ri < n
    /\ total' = ratioTotal(ReportArgs(ri))
    /\ ri' = ri + 1
    /\ UNCHANGED <<rrVars, playVars, actVars, histVars>>

\* The steps of the goroutine of main, which runs roundRobin; a receive is a
\* step of both sides.
Orchestrator ==
    Spawn \/ SpawnExit \/ Merge \/ Return \/ Report \/ \E i \in Idx : Handoff(i)

\* The steps of worker i.
Worker(i) == i \in Idx /\ (WorkerStart(i) \/ PlayGame(i) \/ Handoff(i))

Next ==
    \/ Spawn
    \/ SpawnExit
    \/ Merge
    \/ Return
    \/ Report
    \/ \E i \in Idx : WorkerStart(i)
    \/ \E i \in Idx : PlayGame(i)
    \/ \E i \in Idx : Handoff(i)

Spec == Init /\ [][Next]_vars

\* The Go scheduler runs every goroutine that can take a step.
FairSpec ==
    /\ Spec
    /\ WF_vars(Orchestrator)
    /\ \A i \in 0..(MaxN - 1) : WF_vars(Worker(i))

----------------------------------------------------------------------------
(* play *)

\* The pairs of strategies play is run on: thresholds at both ends of
\* 1..win and between, Random, and strategies against themselves.
Matchups ==
    { <<StayAtK(win), StayAtK(win)>>,
      <<StayAtK(1), StayAtK(win)>>,
      <<StayAtK(25), StayAtK(25)>>,
      <<StayAtK(50), Random>>,
      <<Random, StayAtK(win)>>,
      <<Random, Random>> }

\* strategies[currentPlayer] in play.
Acting(cp) == IF cp = 0 THEN strategy0 ELSE strategy1

\* LoopCond with the turn total left out of the test.
LoopCondBanked(sc) == sc.player < win

\* LoopCond with <= win for < win: the game goes on at exactly win.
LoopCondInclusive(sc) == sc.player + sc.thisTurn <= win

\* The condition of play's loop.
LoopCond(sc) == sc.player + sc.thisTurn < win

\* var s score; var turnIsOver bool: play is entered with one of the pairs ms.
PlayOn(ms) ==
    /\ \E m \in ms : strategy0 = m[1] /\ strategy1 = m[2]
    /\ s = Score(0, 0, 0)
    /\ turnIsOver = FALSE
    /\ currentPlayer = 0
    /\ ppc = "start"
    /\ winner = -1
    /\ chosen = "none"
    /\ bank = [i \in {0, 1} |-> 0]
    /\ turn = 0
    /\ actor = 0

\* currentPlayer := rand.Intn(2)
PlayStart ==
    /\ ppc = "start"
    /\ currentPlayer' \in {0, 1}
    /\ actor' = currentPlayer'
    /\ ppc' = "loop"
    /\ UNCHANGED <<strategy0, strategy1, s, turnIsOver, winner, chosen, bank, turn>>
    /\ UNCHANGED <<rrVars, actVars, mainVars>>

\* One turn of the loop: the acting strategy chooses, the action is applied,
\* and the players swap when the turn is over.
PlayStep ==
    /\ ppc = "loop"
    /\ LoopCond(s)
    /\ \E a \in nextAction(Acting(currentPlayer), s) :
        \E d \in Outcomes(a) :
            LET res == Result(a, s, d)
                rule == ByRules(a, d, bank, turn, actor)
            IN  /\ s' = res[1]
                /\ turnIsOver' = res[2]
                /\ currentPlayer' = IF res[2] THEN (currentPlayer + 1) % 2 ELSE currentPlayer
                /\ chosen' = a
                /\ bank' = rule.bank
                /\ turn' = rule.turn
                /\ actor' = rule.actor
    /\ UNCHANGED <<strategy0, strategy1, ppc, winner, rrVars, actVars, mainVars>>

\* The loop is left: return currentPlayer.
PlayReturn ==
    /\ ppc = "loop"
    /\ ~LoopCond(s)
    /\ winner' = currentPlayer
    /\ ppc' = "done"
    /\ UNCHANGED <<strategy0, strategy1, s, turnIsOver, currentPlayer, rrVars, actVars>>
    /\ UNCHANGED <<mainVars, histVars>>

PlayNext == PlayStart \/ PlayStep \/ PlayReturn

PlayInit == PlayOn(Matchups)

PInit == RRIdle /\ PlayInit /\ ActIdle

PlaySpec == PInit /\ [][PlayNext]_vars

\* Pairs with a StayAtK whose k is not positive, which nextAction answers
\* with stay at every score: two of them, and one of them on either side of
\* a StayAtK with k in 1..win.
NonPositive ==
    { <<StayAtK(0), StayAtK(0)>>,
      <<StayAtK(0), StayAtK(-1)>>,
      <<StayAtK(-1), StayAtK(1)>>,
      <<StayAtK(0), StayAtK(25)>>,
      <<StayAtK(25), StayAtK(-1)>>,
      <<StayAtK(win), StayAtK(0)>> }

NPInit == RRIdle /\ PlayOn(NonPositive) /\ ActIdle

\* play on the pairs of NonPositive.
NonPositiveSpec == NPInit /\ [][PlayNext]_vars

----------------------------------------------------------------------------
(* roll and stay on their own *)

\* The values a field of the score is drawn from.
ScoreValues == (0..MaxScore) \cup {win - 6, win - 1, win, win + 5}

\* A score to apply an action to.
AInit ==
    /\ RRIdle
    /\ strategy0 = Random
    /\ strategy1 = Random
    /\ s \in {Score(p, o, t) : p \in ScoreValues, o \in ScoreValues, t \in ScoreValues}
    /\ turnIsOver = FALSE
    /\ currentPlayer = 0
    /\ ppc = "apply"
    /\ winner = -1
    /\ chosen = "none"
    /\ bank = <<>>
    /\ turn = 0
    /\ actor = 0
    /\ arg = s
    /\ die = 0

\* s, turnIsOver = roll(s)
ApplyRoll ==
    /\ ppc = "apply"
    /\ \E d \in Die :
        LET res == roll(s, d) IN
        /\ s' = res[1]
        /\ turnIsOver' = res[2]
        /\ die' = d
    /\ arg' = s
    /\ ppc' = "rolled"
    /\ UNCHANGED <<strategy0, strategy1, currentPlayer, winner, rrVars, mainVars, histVars>>

\* s, turnIsOver = stay(s)
ApplyStay ==
    /\ ppc = "apply"
    /\ LET res == stay(s) IN
        /\ s' = res[1]
        /\ turnIsOver' = res[2]
    /\ die' = 0
    /\ arg' = s
    /\ ppc' = "stayed"
    /\ UNCHANGED <<strategy0, strategy1, currentPlayer, winner, rrVars, mainVars, histVars>>

ANext == ApplyRoll \/ ApplyStay

ActionSpec == AInit /\ [][ANext]_vars

----------------------------------------------------------------------------
(* The tournament's claims *)

\* The games the history holds in which index x took part.
GamesOf(x) ==
    Sum([y \in Idx |-> IF y = x THEN log[<<x, x>>].games
                                ELSE log[<<x, y>>].games + log[<<y, x>>].games])

\* The wins the history credits to index x, over all pairs.
Tally(x) == Sum([a \in Idx |-> Sum([b \in Idx |-> log[<<a, b>>].credit[x]])])

\* The wins worker a's games credit to index x.
TallyBy(a, x) == Sum([b \in Idx |-> log[<<a, b>>].credit[x]])

\* The workers whose vectors the orchestrator holds.
Arrived == {arrived[q] : q \in 1..Len(arrived)}

\* C1: when roundRobin has returned, the entries of wins sum to
\* gamesPerSeries * n * (n - 1) / 2.
C1_TotalWins ==
    mpc = "done" => Sum(wins) = gamesPerSeries * ((n * (n - 1)) \div 2)

C1_Witness == mpc = "done" /\ n >= 3 /\ wins[0] > 0 /\ wins[n - 1] > 0

\* C2: roundRobin returns gamesPerSeries * (n - 1), and that is the number of
\* games every strategy index took part in.
C2_GamesPerStrategy ==
    mpc = "done" =>
        /\ games = gamesPerSeries * (n - 1)
        /\ \A x \in Idx : GamesOf(x) = games

C2_Witness == mpc = "done" /\ n >= 3 /\ games > 0 /\ GamesOf(1) = games

\* C3: a pair is played only as (i, j) with i < j and only by worker i, never
\* more than gamesPerSeries times and exactly that often once worker i is
\* through its loops; each game credits one win, to i or to j, and that win
\* is what the worker's private vector counts.
C3_Pairs ==
    /\ \A a \in Idx, b \in Idx :
        LET e == log[<<a, b>>] IN
        /\ e.games > 0 => a < b /\ e.by = {a}
        /\ e.games <= gamesPerSeries
        /\ e.credit[a] + e.credit[b] = (IF a = b THEN 2 ELSE 1) * e.games
        /\ \A x \in Idx \ {a, b} : e.credit[x] = 0
        /\ (a < b /\ wpc[a] \in {"send", "exit"}) => e.games = gamesPerSeries
    /\ \A a \in Idx : wpc[a] \in {"loop", "send", "exit"} =>
            \A x \in Idx : winCount[a][x] = TallyBy(a, x)

C3_Witness ==
    /\ mpc = "done"
    /\ n >= 3
    /\ log[<<0, 2>>].credit[2] > 0
    /\ log[<<0, 2>>].credit[0] > 0
    /\ log[<<1, 2>>].games = gamesPerSeries

\* C4: the orchestrator receives one vector from each worker and no more, a
\* vector only from a worker that is through all its games, and it has all n
\* of them, with every worker gone, before it returns.
C4_Barrier ==
    /\ \A p \in 1..Len(arrived), q \in 1..Len(arrived) :
            arrived[p] = arrived[q] => p = q
    /\ \A i \in Idx : i \in Arrived <=> wpc[i] = "exit"
    /\ \A i \in Arrived : \A b \in Idx : i < b => log[<<i, b>>].games = gamesPerSeries
    /\ Len(arrived) = (IF mpc = "merge" THEN mi + 1 ELSE IF mpc = "spawn" THEN 0 ELSE mi)
    /\ mpc = "done" => Arrived = Idx /\ Len(arrived) = n

C4_Witness == mpc = "done" /\ n >= 3 /\ arrived[1] # 0 /\ wins[0] > 0

\* C5: the wins roundRobin returns are the per-index totals of the games'
\* outcomes, whatever the order in which the vectors arrived: two runs with
\* the same outcomes return the same wins.
C5_OrderIndependent ==
    mpc = "done" => \A x \in Idx : wins[x] = Tally(x)

C5_Witness ==
    /\ mpc = "done"
    /\ n >= 3
    /\ arrived = <<2, 1, 0>>
    /\ wins[0] > 0 /\ wins[1] > 0 /\ wins[2] > 0

\* Worker i, once spawned, has moved.
WorkerStepped(i) ==
    wpc[i] # "none" /\ (wpc'[i] # wpc[i] \/ wj'[i] # wj[i] \/ wk'[i] # wk[i])

\* What one step may write, and whose step it then is.
C6_Step ==
    /\ strategies' = strategies
    /\ \A i \in Idx : winCount'[i] # winCount[i] =>
            /\ wpc[i] \in {"start", "loop"}
            /\ WorkerStepped(i)
            /\ \A q \in Idx \ {i} : winCount'[q] = winCount[q] /\ ~WorkerStepped(q)
            /\ wins' = wins
    /\ \A i \in Idx : WorkerStepped(i) => wins' = wins /\ mi' = mi
    /\ wins' # wins =>
            /\ mpc = "merge"
            /\ Len(arrived) > 0
            /\ r = winCount[arrived[Len(arrived)]]
            /\ wpc[arrived[Len(arrived)]] = "exit"
            /\ winCount' = winCount

\* C6: no cell is written by two processes.  A step that changes a worker's
\* private vector is a step of that worker, before its send, and changes no
\* other vector and not wins; a step that changes wins is the orchestrator's
\* merge of the vector it last received, whose worker is gone; the
\* strategies are never written.
C6_NoSharedWrites == [][C6_Step]_vars

C6_Witness ==
    /\ n >= 3
    /\ mpc = "merge"
    /\ wpc[0] = "loop" /\ winCount[0][0] > 0
    /\ wpc[1] = "loop" /\ winCount[1][2] > 0

\* C7: with every game ending, roundRobin returns and every worker's send is
\* taken: no worker stays blocked on the channel, for any n >= 0.
C7_Terminates == <>(mpc = "done" /\ \A i \in Idx : wpc[i] = "exit")

C7_Witness == n >= 3 /\ mpc = "spawn" /\ wpc[1] = "send" /\ wpc[0] = "loop"

----------------------------------------------------------------------------
(* The game's claims *)

\* The index play returns if, from score sc with cp to act, every roll
\* comes up 6 and a strategy that may roll does; -1 when the game is not
\* over within fuel actions.
RECURSIVE LuckyWinner(_, _, _)
LuckyWinner(sc, cp, fuel) ==
    IF ~LoopCond(sc) THEN cp
    ELSE IF fuel = 0 THEN -1
    ELSE LET res == IF "roll" \in nextAction(Acting(cp), sc)
                    THEN roll(sc, 6) ELSE stay(sc)
         IN  LuckyWinner(res[1], IF res[2] THEN (cp + 1) % 2 ELSE cp, fuel - 1)

\* C8: play ends and returns 0 or 1 under a fair die and fair choices.  The
\* states of a game are finitely many, so a run in which every outcome that
\* is possible infinitely often occurs can go on forever only inside a set
\* of states no outcome leaves; there is none, because from every state a
\* game reaches, the game can still end (here: by rolling sixes), and what
\* it returns, then and whenever it ends, is 0 or 1.
C8_PlayEnds ==
    /\ ppc = "loop" => LuckyWinner(s, currentPlayer, MaxLucky) \in {0, 1}
    /\ ppc = "done" => winner \in {0, 1}

C8_Witness ==
    /\ ppc = "done"
    /\ strategy0 = strategy1
    /\ strategy0 = StayAtK(25)
    /\ winner = 1
    /\ s.opponent > 0

\* What a step of play does on either side of the loop's condition.
C9_Step ==
    /\ (ppc = "loop" /\ s.player + s.thisTurn < win) =>
            ppc' = "loop" /\ winner' = -1
    /\ (ppc = "loop" /\ s.player + s.thisTurn >= win) =>
            ppc' = "done" /\ winner' = currentPlayer /\ s' = s
    /\ ppc = "done" => ppc' = "done" /\ winner' = winner

\* C9: play takes another turn of the loop exactly while
\* s.player + s.thisTurn < win, returns as soon as that fails, and returns
\* the currentPlayer of that moment, whose banked score plus turn total is
\* at least win.
C9_LoopAndWinner ==
    /\ [][C9_Step]_vars
    /\ [](ppc = "done" =>
            /\ winner = currentPlayer
            /\ s.player + s.thisTurn >= win)

C9_Witness ==
    /\ ppc = "done"
    /\ winner = 0
    /\ s.player + s.thisTurn > win
    /\ s.opponent > s.player

\* C10: roll on (p, o, t) with die d gives ((o, p, 0), true) for d = 1 and
\* ((p, o, t + d), false) for d in 2..6: thisTurn is reset to 0 or grows by
\* 2..6, and the banked scores are kept, swapped on a 1 only.
C10_Roll ==
    ppc = "rolled" =>
        /\ die = 1 => s = Score(arg.opponent, arg.player, 0) /\ turnIsOver = TRUE
        /\ die \in 2..6 =>
                s = Score(arg.player, arg.opponent, arg.thisTurn + die) /\ turnIsOver = FALSE
        /\ die \in 1..6
        /\ s.thisTurn = 0 \/ (s.thisTurn - arg.thisTurn) \in 2..6
        /\ \/ die # 1 /\ s.player = arg.player /\ s.opponent = arg.opponent
           \/ die = 1 /\ s.player = arg.opponent /\ s.opponent = arg.player

C10_Witness ==
    /\ ppc = "rolled"
    /\ die = 1
    /\ arg.player = win - 1
    /\ arg.opponent = 3
    /\ arg.thisTurn = 5
    /\ s.player = 3


\* C11: stay on the score (p, o, t) ends the turn with the score (o, p + t, 0):
\* the turn is over, thisTurn is 0, the new player is the old opponent and the
\* new opponent is the old player with the turn total added; no die outcome
\* takes part, so the score stayed on has this one result.
C11_Stay ==
    ppc = "stayed" =>
        /\ turnIsOver = TRUE
        /\ s.thisTurn = 0
        /\ s.player = arg.opponent
        /\ s.opponent = arg.player + arg.thisTurn
        /\ die = 0

\* A stay with points in hand and unequal scores has been made.
C11_Witness ==
    /\ ppc = "stayed"
    /\ arg = Score(win - 6, 3, 5)
    /\ s = Score(3, win - 1, 0)
    /\ turnIsOver = TRUE

\* A turn of the game in which a StayAtK strategy is asked for its action.
StayAtKActs == ppc = "loop" /\ LoopCond(s) /\ Acting(currentPlayer).kind = "StayAtK"

\* C12: StayAtK(k).nextAction returns stay exactly when thisTurn >= k and roll
\* otherwise, whatever the banked scores are, and leaves k as it was; so in a
\* game a StayAtK(k) player never stays with a turn total below k, and a
\* StayAtK(win) player never stays at all.
C12_Step ==
    StayAtKActs =>
        /\ chosen' \in {"stay", "roll"}
        /\ chosen' = "stay" <=> s.thisTurn >= Acting(currentPlayer).k
        /\ Acting(currentPlayer) = StayAtK(win) => chosen' = "roll"
        /\ strategy0' = strategy0
        /\ strategy1' = strategy1

C12_StayAtK == [][C12_Step]_vars

\* A StayAtK(25) player has stayed at a turn total of exactly 25, after an
\* opponent who had banked 25 or more.
C12_Witness ==
    /\ strategy0 = StayAtK(25)
    /\ strategy1 = StayAtK(25)
    /\ ppc = "loop"
    /\ chosen = "stay"
    /\ s.opponent = 25
    /\ s.player > 25

\* An action is applied in a game.
ActionApplied == ppc = "loop" /\ LoopCond(s)

\* C13: every action applied in a game either continues the turn, with
\* score.player and score.opponent as they were and player + thisTurn strictly
\* larger than before, or ends it, with the roles swapped and thisTurn = 0;
\* player, opponent and thisTurn are never negative, and player + thisTurn
\* never gets smaller within a turn.
C13_Step ==
    ActionApplied =>
        \/ /\ ~turnIsOver'
           /\ currentPlayer' = currentPlayer
           /\ s'.player = s.player
           /\ s'.opponent = s.opponent
           /\ s'.player + s'.thisTurn > s.player + s.thisTurn
        \/ /\ turnIsOver'
           /\ currentPlayer' = 1 - currentPlayer
           /\ s'.player = s.opponent
           /\ s'.opponent \in {s.player, s.player + s.thisTurn}
           /\ s'.thisTurn = 0

C13_NonNegative == s.player >= 0 /\ s.opponent >= 0 /\ s.thisTurn >= 0

C13_Turns == [][C13_Step]_vars /\ []C13_NonNegative

\* A turn is running with points in hand after one that ended in a stay.
C13_Witness ==
    /\ ppc = "loop"
    /\ ~turnIsOver
    /\ s.thisTurn > 6
    /\ s.player > 0
    /\ s.opponent > s.player

\* C14: with gamesPerSeries >= 1 and at least two strategies, the
\* gamesPerStrategy roundRobin returns is positive, the two values main
\* reports for a strategy, wins[i] and games - wins[i], add up to it, and so
\* the total ratioString divides by is never zero.
C14_TotalNotZero ==
    (gamesPerSeries >= 1 /\ n >= 2) =>
        /\ mpc = "done" =>
            /\ games = GamesPerStrategy
            /\ games > 0
            /\ \A i \in Idx : ratioTotal(ReportArgs(i)) = games
        /\ ri > 0 => (total = games /\ total > 0)

\* main has reported all of three strategies, the last of which won some of
\* its games and lost some.
C14_Witness ==
    /\ n = 3
    /\ mpc = "done"
    /\ ri = n
    /\ total = 2 * gamesPerSeries
    /\ wins[2] > 0
    /\ wins[2] < games

\* C15: in play the swap of the roles inside the score and the flip of
\* currentPlayer stay in step: beside a game kept by the rules with each
\* player's banked score under the player's own index, score.player is the
\* banked score of the player currentPlayer names, score.opponent that of the
\* other player, and thisTurn the turn total of the player to act.
C15_InStep ==
    /\ currentPlayer = actor
    /\ s.player = bank[currentPlayer]
    /\ s.opponent = bank[1 - currentPlayer]
    /\ s.thisTurn = turn

\* Player 1 is in a turn with points in hand, both players have banked, and
\* the banked scores differ.
C15_Witness ==
    /\ ppc = "loop"
    /\ currentPlayer = 1
    /\ bank[0] > 0
    /\ bank[1] > bank[0]
    /\ s.player = bank[1]
    /\ s.opponent = bank[0]
    /\ turn > 0
    /\ s.thisTurn = turn

\* The games the history holds, over all pairs.
TotalGames == Sum([a \in Idx |-> Sum([b \in Idx |-> log[<<a, b>>].games])])

\* C16: the games one call of roundRobin over n strategies simulates number
\* gamesPerSeries * n * (n - 1) / 2, a series for every pair;
\* gamesPerSeries * (n - 1) is the number each single strategy takes part in.
C16_TotalGames ==
    mpc = "done" =>
        /\ TotalGames = gamesPerSeries * ((n * (n - 1)) \div 2)
        /\ \A x \in Idx : GamesOf(x) = gamesPerSeries * (n - 1)

\* C16 as first stated, for a call with at least one strategy: the games one
\* call of roundRobin simulates number gamesPerSeries * (n - 1).
C16_Original ==
    (mpc = "done" /\ n >= 1) => TotalGames = gamesPerSeries * (n - 1)

\* roundRobin has returned from a tournament of three: three series were
\* played, where gamesPerSeries * (n - 1) counts two.
C16_Witness ==
    /\ mpc = "done"
    /\ n = 3
    /\ TotalGames = 3 * gamesPerSeries
    /\ games = 2 * gamesPerSeries

\* C17, on the states: both banked scores lie in 0..win-1 and player +
\* thisTurn is at most win + 5; when play returns, the last action was a roll
\* that left the turn running, the winner is the player who made it, and the
\* winner's banked score is still below win.
C17_Bounds ==
    /\ s.player \in 0..(win - 1)
    /\ s.opponent \in 0..(win - 1)
    /\ s.player + s.thisTurn <= win + 5
    /\ ppc = "done" =>
        /\ chosen = "roll"
        /\ ~turnIsOver
        /\ s.thisTurn >= 2
        /\ s.player + s.thisTurn >= win
        /\ s.player < win
        /\ winner = currentPlayer
        /\ winner = actor

\* C17, on the steps: the action that ends a game is never a stay, but a roll
\* of 2..6 by the player who then wins.
C17_LastStep ==
    (ppc = "loop" /\ LoopCond(s) /\ ~LoopCond(s')) =>
        /\ chosen' = "roll"
        /\ ~turnIsOver'
        /\ currentPlayer' = currentPlayer
        /\ s'.player = s.player
        /\ (s'.thisTurn - s.thisTurn) \in 2..6

\* C17: in every state of play both banked scores are in 0..win-1 and player
\* + thisTurn <= win + 5; hence a stay never ends a game, the last action of a
\* finished game is a roll of 2..6 made by the returned winner, and the
\* winner's banked score is below win when play returns.
C17_GameEnd == []C17_Bounds /\ [][C17_LastStep]_vars

\* play has returned from the highest total there is: a 6 rolled at a banked
\* score of win - 1, against an opponent who had banked win - 1 as well.
C17_Witness ==
    /\ ppc = "done"
    /\ s.player = win - 1
    /\ s.opponent = win - 1
    /\ s.thisTurn = 6
    /\ chosen = "roll"

\* C18: every entry of wins, in the tally roundRobin returns and in every
\* partial tally while the orchestrator is still collecting, lies in
\* 0..gamesPerStrategy, so the loss count games - wins[i] main computes is
\* never negative.
C18_WinsBounded ==
    \A x \in Idx :
        /\ wins[x] >= 0
        /\ wins[x] <= GamesPerStrategy
        /\ mpc = "done" => ReportArgs(x)[2] >= 0

\* The orchestrator is still collecting, and the one vector it has merged so
\* far already gives strategy 0 a win in every game it plays.
C18_Witness ==
    /\ n = 3
    /\ mpc = "recv"
    /\ mi = 1
    /\ wins[0] = GamesPerStrategy

\* A StayAtK whose k is zero or less.
StaysAtOnce(st) == st.kind = "StayAtK" /\ st.k <= 0

\* C19, two StayAtK(k <= 0): the score is (0, 0, 0) in every state, play has
\* not returned, and the loop can always take another turn.
C19_NoReturn ==
    (StaysAtOnce(strategy0) /\ StaysAtOnce(strategy1)) =>
        /\ s = Score(0, 0, 0)
        /\ ppc # "done"
        /\ winner = -1
        /\ chosen \in {"none", "stay"}
        /\ ppc = "loop" => ENABLED PlayStep

\* C19, two StayAtK(k <= 0): every action is a stay at thisTurn = 0 that
\* hands the turn to the other player.
C19_Step ==
    (StaysAtOnce(strategy0) /\ StaysAtOnce(strategy1) /\ ppc = "loop") =>
        /\ s.thisTurn = 0
        /\ chosen' = "stay"
        /\ s' = s
        /\ currentPlayer' = 1 - currentPlayer

\* C19, one StayAtK(k <= 0) against a StayAtK(k) with 1 <= k <= win: the game
\* can end from every state it reaches, the player who stays at once banks
\* nothing, and the winner is the other player.
C19_OneSided ==
    \A i \in {0, 1} :
        (StaysAtOnce(Acting(i)) /\ ~StaysAtOnce(Acting(1 - i))) =>
            /\ bank[i] = 0
            /\ ppc = "loop" => LuckyWinner(s, currentPlayer, MaxLucky) = 1 - i
            /\ ppc = "done" => winner = 1 - i

\* C19: if both strategies are StayAtK(k) with k <= 0, play never returns:
\* every action is a stay with thisTurn = 0, the score stays (0, 0, 0) and
\* currentPlayer alternates; if one is StayAtK(k <= 0) and the other
\* StayAtK(k) with 1 <= k <= win, play ends under a fair die and the k <= 0
\* player never wins.
C19_NonPositiveK == [](C19_NoReturn /\ C19_OneSided) /\ [][C19_Step]_vars

\* Between two players who stay at once, player 1 has stayed and the turn
\* is with player 0 at the score (0, 0, 0).
C19_Witness ==
    /\ strategy0 = StayAtK(0)
    /\ strategy1 = StayAtK(-1)
    /\ ppc = "loop"
    /\ chosen = "stay"
    /\ turnIsOver
    /\ currentPlayer = 0
    /\ s = Score(0, 0, 0)
====
